---- MODULE Spec2Model ----
(***************************************************************************)
(* The three browser-verification scripts of the repository as one state   *)
(* machine:                                                                *)
(*   "print"    src/verify_print.py                          run()         *)
(*   "chat"     src/jules-scratch/verification/verify_chat.py    run()     *)
(*   "feature"  src/jules-scratch/verification/verify_feature.py           *)
(*                                              verify_places_search(page) *)
(* A run executes the statements of one script in program order.  Every    *)
(* call on the page is issued and then completes or raises; the page and   *)
(* the application behind it are the environment, so the result of a call  *)
(* and of every probe of a wait is a nondeterministic choice.              *)
(***************************************************************************)
EXTENDS Integers, Sequences, FiniteSets

VARIABLES
    script,     \* which script this run executes
    pc,         \* position of the run in the script
    started,    \* number of steps whose first call has been issued
    results,    \* outcome of every step that has ended, in order
    failure,    \* the step that failed and why (NoFailure while none has)
    browser,    \* the browser: "none", "open" or "closed"
    pw,         \* the sync_playwright()/async_playwright() context manager
    calls,      \* every call made on the playwright objects, in order
    log,        \* the lines printed so far
    shots,      \* the screenshot files written, in order
    dirExists,  \* whether jules-scratch/verification exists (os.path.exists)
    recap_buttons,    \* len(recap_buttons) after query_selector_all
    elapsed,    \* milliseconds spent in the wait in progress
    probe,      \* what the last probe of the wait in progress returned
    outcome,    \* "running", "returned" or "raised": what the caller sees
    peer,       \* the script a second, concurrent run executes ("none": alone)
    files,      \* for every screenshot path, the runs that have written it
    clicked     \* index in recap_buttons of the button clicked (-1: none)

vars == << script, pc, started, results, failure, browser, pw, calls, log,
           shots, dirExists, recap_buttons, elapsed, probe, outcome, peer,
           files, clicked >>

----------------------------------------------------------------------------
(* Bounds of the model *)

\* Milliseconds between two probes of a wait (the waits' poll interval).
TickMs == 5000

\* Largest number of elements query_selector_all returns.
MaxButtons == 2

----------------------------------------------------------------------------
(* The scripts *)

Scripts == {"print", "chat", "feature"}

Step(k, c, t) == [kind |-> k, cond |-> c, timeout |-> t]

\* src/verify_print.py: goto, wait_for_selector("h3", timeout=10000),
\* query_selector_all + click, wait_for_selector(h2, state='visible') with
\* the page's default timeout of 30000 ms, screenshot.
PrintSteps ==
    << Step("Navigate", "none", 0),
       Step("WaitFor", "ElementVisible", 10000),
       Step("Click", "none", 0),
       Step("WaitFor", "ElementVisible", 30000),
       Step("Screenshot", "none", 0) >>

\* Mutant of ChatSteps: the chat script waits for a selector, not a delay.
ChatStepsSelector ==
    << Step("Navigate", "none", 0),
       Step("WaitFor", "ElementVisible", 5000),
       Step("Screenshot", "none", 0) >>

\* verify_chat.py: goto, wait_for_timeout(5000), screenshot.
ChatSteps ==
    << Step("Navigate", "none", 0),
       Step("WaitFor", "FixedDelay", 5000),
       Step("Screenshot", "none", 0) >>

\* verify_feature.py: goto, fill, press, expect(...).to_be_visible() with the
\* assertion's default timeout of 5000 ms, makedirs + screenshot.
FeatureSteps ==
    << Step("Navigate", "none", 0),
       Step("Fill", "none", 0),
       Step("Press", "none", 0),
       Step("WaitFor", "ElementContainsText", 5000),
       Step("Screenshot", "none", 0) >>

Steps(s) ==
    CASE s = "print" -> PrintSteps
      [] s = "chat" -> ChatSteps
      [] OTHER -> FeatureSteps

\* The path each script's screenshot call writes.
ShotPath(s) ==
    IF s = "print" THEN "verification_print_modal.png"
    ELSE "jules-scratch/verification/verification.png"

\* print and chat launch the browser inside a with-block of their own;
\* verify_places_search is handed the page by its caller.
OwnsSession(s) == s \in {"print", "chat"}

\* Mutant of PrintsAfter: each message is printed one statement early.
PrintsEarly(s, i) ==
    IF s # "feature" THEN << >>
    ELSE CASE i = 1 -> << "Navigated to places page.",
                          "Searched for SoFi Stadium." >>
           [] i = 2 -> << "Place info overlay is visible." >>
           [] i = 3 -> << "Screenshot taken." >>
           [] OTHER -> << >>

\* The lines verify_places_search prints once step i (0-based) has completed.
PrintsAfter(s, i) ==
    IF s # "feature" THEN << >>
    ELSE CASE i = 0 -> << "Navigated to places page." >>
           [] i = 2 -> << "Searched for SoFi Stadium." >>
           [] i = 3 -> << "Place info overlay is visible." >>
           [] i = 4 -> << "Screenshot taken." >>
           [] OTHER -> << >>

\* The error a failing call of each kind raises.
Reason(kind) ==
    CASE kind = "Navigate" -> "NavigationError"
      [] kind = "Screenshot" -> "CaptureError"
      [] kind = "WaitFor" -> "TimedOut"
      [] OTHER -> "ElementNotFound"

NoFailure == [step |-> -1, reason |-> "none"]

Failed(i, r) == [step |-> i, reason |-> r]

Result(i, o) == [step |-> i, outcome |-> o]

Call(op, i) == [op |-> op, step |-> i]

\* The step in progress (0-based); meaningful once a step has started.
Cur == started - 1

CurStep == Steps(script)[started]

----------------------------------------------------------------------------
(* Initial state: a script is about to be run. *)

\* The paths the scripts write their screenshots to.
Paths == { ShotPath(s) : s \in Scripts }

Entry ==
    /\ script \in Scripts
    /\ pc = "start"
    /\ started = 0
    /\ results = << >>
    /\ failure = NoFailure
    /\ browser = IF OwnsSession(script) THEN "none" ELSE "open"
    /\ pw = "none"
    /\ calls = << >>
    /\ log = << >>
    /\ shots = << >>
    /\ dirExists \in (IF script = "feature" THEN BOOLEAN ELSE {TRUE})
    /\ recap_buttons = 0
    /\ elapsed = 0
    /\ probe = FALSE
    /\ outcome = "running"
    /\ files = [p \in Paths |-> {}]
    /\ clicked = -1

\* One script is run on its own.
Init == Entry /\ peer = "none"

----------------------------------------------------------------------------
(* Helpers shared by the actions *)

\* The call a step issues first on the page.
OpOf(s, st) ==
    CASE st.kind = "Navigate" -> "goto"
      [] st.kind = "Fill" -> "fill"
      [] st.kind = "Press" -> "press"
      [] st.kind = "Click" -> "query_selector_all"
      [] st.kind = "Screenshot" -> "screenshot"
      [] st.cond = "FixedDelay" -> "wait_for_timeout"
      [] st.cond = "ElementContainsText" -> "expect_to_be_visible"
      [] OTHER -> "wait_for_selector"

\* Mutant of Expired: the wait is issued with its timeout disabled.
NeverExpired(e, t) == FALSE

\* A wait gives up once the time spent reaches its timeout.
Expired(e, t) == e >= t

\* Mutant of Released: the browser is launched outside any with-block, so
\* nothing closes it when the run is left early.
Leaked(b) == b

\* Mutant of Released: releasing a browser that is already closed fails.
ReleasedStrict(b) == IF b = "open" THEN "closed" ELSE "error"

\* Leaving the with-block stops playwright, which closes a browser that is
\* still open.
Released(b) == IF b = "open" THEN "closed" ELSE b

\* The position after the first call of step st has been issued.
EntryPc(s, st) ==
    CASE st.kind = "WaitFor" -> "waiting"
      [] st.kind = "Click" -> "query"
      [] st.kind = "Screenshot" /\ s = "feature" -> "mkdir"
      [] OTHER -> "acting"

\* The files after run w has written path p.
Written(f, p, w) == [f EXCEPT ![p] = @ \cup {w}]

\* Mutant of Succeed: a screenshot call that returns without writing a file.
SucceedNoFile ==
    /\ results' = Append(results, Result(Cur, "Success"))
    /\ shots' = shots
    /\ files' = files
    /\ log' = log \o PrintsAfter(script, Cur)
    /\ pc' = "ready"

\* The step in progress ends with success.
Succeed ==
    /\ results' = Append(results, Result(Cur, "Success"))
    /\ shots' = IF CurStep.kind = "Screenshot"
                THEN Append(shots, ShotPath(script)) ELSE shots
    /\ files' = IF CurStep.kind = "Screenshot"
                THEN Written(files, ShotPath(script), "run") ELSE files
    /\ log' = log \o PrintsAfter(script, Cur)
    /\ pc' = "ready"

\* Mutant of Raise: the failing step leaves no result behind.
RaiseNoResult(o, r) ==
    /\ results' = results
    /\ failure' = Failed(Cur, r)
    /\ pc' = "raised"

\* The step in progress raises: the exception leaves the statement.
Raise(o, r) ==
    /\ results' = Append(results, Result(Cur, o))
    /\ failure' = Failed(Cur, r)
    /\ pc' = "raised"

----------------------------------------------------------------------------
(* Entering the script *)

\* with sync_playwright() as p: / async with async_playwright() as p:
EnterPlaywright ==
    /\ pc = "start" /\ OwnsSession(script)
    /\ pw' = "running"
    /\ pc' = "launch"
    /\ UNCHANGED << clicked, peer, files, probe, script, started, results,
                    failure, browser, calls, log, shots, dirExists,
                    recap_buttons, elapsed, outcome >>

\* try: print("Starting verification script...")
EnterTry ==
    /\ pc = "start" /\ script = "feature"
    /\ log' = Append(log, "Starting verification script...")
    /\ pc' = "ready"
    /\ UNCHANGED << clicked, peer, files, probe, script, started, results,
                    failure, browser, pw, calls, shots, dirExists,
                    recap_buttons, elapsed, outcome >>

\* browser = p.chromium.launch()
LaunchOk ==
    /\ pc = "launch"
    /\ calls' = Append(calls, Call("launch", -1))
    /\ browser' = "open"
    /\ pc' = "newpage"
    /\ UNCHANGED << clicked, peer, files, probe, script, started, results,
                    failure, pw, log, shots, dirExists, recap_buttons,
                    elapsed, outcome >>

\* p.chromium.launch() raises: the engine cannot start.
LaunchFail ==
    /\ pc = "launch"
    /\ calls' = Append(calls, Call("launch", -1))
    /\ failure' = Failed(-1, "LaunchError")
    /\ pc' = "raised"
    /\ UNCHANGED << clicked, peer, files, probe, script, started, results,
                    browser, pw, log, shots, dirExists, recap_buttons,
                    elapsed, outcome >>

\* page = browser.new_page()
NewPageOk ==
    /\ pc = "newpage"
    /\ calls' = Append(calls, Call("new_page", -1))
    /\ pc' = "ready"
    /\ UNCHANGED << clicked, peer, files, probe, script, started, results,
                    failure, browser, pw, log, shots, dirExists,
                    recap_buttons, elapsed, outcome >>

\* browser.new_page() raises with the browser already launched.
NewPageFail ==
    /\ pc = "newpage"
    /\ calls' = Append(calls, Call("new_page", -1))
    /\ failure' = Failed(-1, "LaunchError")
    /\ pc' = "raised"
    /\ UNCHANGED << clicked, peer, files, probe, script, started, results,
                    browser, pw, log, shots, dirExists, recap_buttons,
                    elapsed, outcome >>

----------------------------------------------------------------------------
(* The steps *)

\* Mutant of StartStep: the call of the previous step is not awaited.
StartStepNoAwait ==
    /\ pc \in {"ready", "acting"}
    /\ started < Len(Steps(script))
    /\ started' = started + 1
    /\ LET st == Steps(script)[started + 1] IN
        /\ pc' = EntryPc(script, st)
        /\ calls' = IF EntryPc(script, st) = "mkdir" THEN calls
                    ELSE Append(calls, Call(OpOf(script, st), started))
    /\ elapsed' = 0
    /\ probe' = FALSE
    /\ UNCHANGED << clicked, peer, files, script, results, failure, browser,
                    pw, log, shots, dirExists, recap_buttons, outcome >>

\* The next statement of the script issues its call; the run awaits it.
StartStep ==
    /\ pc = "ready"
    /\ started < Len(Steps(script))
    /\ started' = started + 1
    /\ LET st == Steps(script)[started + 1] IN
        /\ pc' = EntryPc(script, st)
        /\ calls' = IF EntryPc(script, st) = "mkdir" THEN calls
                    ELSE Append(calls, Call(OpOf(script, st), started))
    /\ elapsed' = 0
    /\ probe' = FALSE
    /\ UNCHANGED << clicked, peer, files, script, results, failure, browser,
                    pw, log, shots, dirExists, recap_buttons, outcome >>

\* goto / fill / press / click / screenshot returns.
FinishOk ==
    /\ pc = "acting"
    /\ Succeed
    /\ UNCHANGED << clicked, peer, probe, script, started, failure, browser,
                    pw, calls, dirExists, recap_buttons, elapsed, outcome >>

\* Mutant of FinishFail: a call that raises is issued once more before the
\* failure is reported.
FinishFailRetry ==
    /\ pc = "acting"
    /\ IF Cardinality({ k \in 1..Len(calls) : calls[k] = calls[Len(calls)] }) < 2
       THEN /\ calls' = Append(calls, calls[Len(calls)])
            /\ UNCHANGED << pc, results, failure >>
       ELSE /\ Raise("ActionFailed", Reason(CurStep.kind))
            /\ calls' = calls
    /\ UNCHANGED << clicked, peer, files, probe, script, started, browser, pw,
                    log, shots, dirExists, recap_buttons, elapsed,
                    outcome >>

\* goto / fill / press / click / screenshot raises.
FinishFail ==
    /\ pc = "acting"
    /\ Raise("ActionFailed", Reason(CurStep.kind))
    /\ UNCHANGED << clicked, peer, files, probe, script, started, browser, pw,
                    calls, log, shots, dirExists, recap_buttons, elapsed,
                    outcome >>

\* recap_buttons is not empty: await recap_buttons[0].click()
QueryFound ==
    /\ pc = "query"
    /\ \E n \in 1..MaxButtons : recap_buttons' = n
    /\ clicked' = 0
    /\ calls' = Append(calls, Call("click", Cur))
    /\ pc' = "acting"
    /\ UNCHANGED << peer, files, probe, script, started, results, failure,
                    browser, pw, log, shots, dirExists, elapsed, outcome >>

\* Mutant of QueryEmpty: the message is printed but the return is missing.
QueryEmptyNoReturn ==
    /\ pc = "query"
    /\ recap_buttons' = 0
    /\ log' = Append(log, "Recap button not found")
    /\ calls' = Append(calls, Call("click", Cur))
    /\ pc' = "acting"
    /\ UNCHANGED << clicked, peer, files, probe, script, started, results,
                    failure, browser, pw, shots, dirExists, elapsed,
                    outcome >>

\* if not recap_buttons: print("Recap button not found"); return
QueryEmpty ==
    /\ pc = "query"
    /\ recap_buttons' = 0
    /\ log' = Append(log, "Recap button not found")
    /\ results' = Append(results, Result(Cur, "ActionFailed"))
    /\ failure' = Failed(Cur, "ElementNotFound")
    /\ pc' = "exit"
    /\ UNCHANGED << clicked, peer, files, probe, script, started, browser, pw,
                    calls, shots, dirExists, elapsed, outcome >>

\* os.path.exists("jules-scratch/verification") is true: page.screenshot(...)
DirPresent ==
    /\ pc = "mkdir" /\ dirExists
    /\ calls' = Append(calls, Call("screenshot", Cur))
    /\ pc' = "acting"
    /\ UNCHANGED << clicked, peer, files, probe, script, started, results,
                    failure, browser, pw, log, shots, dirExists,
                    recap_buttons, elapsed, outcome >>

\* os.makedirs("jules-scratch/verification") succeeds: page.screenshot(...)
MakeDirs ==
    /\ pc = "mkdir" /\ ~dirExists
    /\ dirExists' = TRUE
    /\ calls' = Append(calls, Call("screenshot", Cur))
    /\ pc' = "acting"
    /\ UNCHANGED << clicked, peer, files, probe, script, started, results,
                    failure, browser, pw, log, shots, recap_buttons, elapsed,
                    outcome >>

\* os.makedirs raises OSError.
MakeDirsFail ==
    /\ pc = "mkdir" /\ ~dirExists
    /\ Raise("ActionFailed", "CaptureError")
    /\ UNCHANGED << clicked, peer, files, probe, script, started, browser, pw,
                    calls, log, shots, dirExists, recap_buttons, elapsed,
                    outcome >>

----------------------------------------------------------------------------
(* The waits *)

\* page.wait_for_timeout(ms) is still sleeping.
DelayTick ==
    /\ pc = "waiting" /\ CurStep.cond = "FixedDelay"
    /\ ~Expired(elapsed, CurStep.timeout)
    /\ elapsed' = elapsed + TickMs
    /\ UNCHANGED << clicked, peer, files, probe, script, pc, started, results,
                    failure, browser, pw, calls, log, shots, dirExists,
                    recap_buttons, outcome >>

\* page.wait_for_timeout(ms) returns once ms have passed.
DelayDone ==
    /\ pc = "waiting" /\ CurStep.cond = "FixedDelay"
    /\ Expired(elapsed, CurStep.timeout)
    /\ Succeed
    /\ UNCHANGED << clicked, peer, probe, script, started, failure, browser,
                    pw, calls, dirExists, recap_buttons, elapsed, outcome >>

\* The probe of the awaited condition returns true: the wait returns.
ProbeTrue ==
    /\ pc = "waiting" /\ CurStep.cond # "FixedDelay"
    /\ ~Expired(elapsed, CurStep.timeout)
    /\ Succeed
    /\ probe' = TRUE
    /\ UNCHANGED << clicked, peer, script, started, failure, browser, pw,
                    calls, dirExists, recap_buttons, elapsed, outcome >>

\* The probe returns false: the wait sleeps until the next probe.
ProbeFalse ==
    /\ pc = "waiting" /\ CurStep.cond # "FixedDelay"
    /\ ~Expired(elapsed, CurStep.timeout)
    /\ elapsed' = elapsed + TickMs
    /\ probe' = FALSE
    /\ UNCHANGED << clicked, peer, files, script, pc, started, results,
                    failure, browser, pw, calls, log, shots, dirExists,
                    recap_buttons, outcome >>

\* Mutant of WaitTimeout: the timeout is swallowed and the script goes on.
WaitTimeoutIgnored ==
    /\ pc = "waiting" /\ CurStep.cond # "FixedDelay"
    /\ Expired(elapsed, CurStep.timeout)
    /\ results' = Append(results, Result(Cur, "TimedOut"))
    /\ pc' = "ready"
    /\ UNCHANGED << clicked, peer, files, probe, script, started, failure,
                    browser, pw, calls, log, shots, dirExists, recap_buttons,
                    elapsed, outcome >>

\* The timeout has passed: TimeoutError (AssertionError from expect).
WaitTimeout ==
    /\ pc = "waiting" /\ CurStep.cond # "FixedDelay"
    /\ Expired(elapsed, CurStep.timeout)
    /\ Raise("TimedOut", "TimedOut")
    /\ UNCHANGED << clicked, peer, files, probe, script, started, browser, pw,
                    calls, log, shots, dirExists, recap_buttons, elapsed,
                    outcome >>

----------------------------------------------------------------------------
(* Leaving the script *)

\* browser.close() after the last statement (print, chat).
Close ==
    /\ pc = "ready" /\ OwnsSession(script)
    /\ started = Len(Steps(script))
    /\ calls' = Append(calls, Call("close", -1))
    /\ browser' = "closed"
    /\ pc' = "exit"
    /\ UNCHANGED << clicked, peer, files, probe, script, started, results,
                    failure, pw, log, shots, dirExists, recap_buttons,
                    elapsed, outcome >>

\* Mutant of ExitWith: the browser is closed once more on the way out.
ExitWithClose ==
    /\ pc = "exit"
    /\ pw' = "stopped"
    /\ browser' = Released(browser)
    /\ calls' = calls \o << Call("close", -1), Call("stop", -1) >>
    /\ outcome' = "returned"
    /\ pc' = "done"
    /\ UNCHANGED << clicked, peer, files, probe, script, started, results,
                    failure, log, shots, dirExists, recap_buttons, elapsed >>

\* The with-block is left by return or by falling off its end.
ExitWith ==
    /\ pc = "exit"
    /\ pw' = "stopped"
    /\ browser' = Released(browser)
    /\ calls' = Append(calls, Call("stop", -1))
    /\ outcome' = "returned"
    /\ pc' = "done"
    /\ UNCHANGED << clicked, peer, files, probe, script, started, results,
                    failure, log, shots, dirExists, recap_buttons, elapsed >>

\* An exception leaves the with-block: playwright is stopped and the
\* exception goes on to the caller (print and chat catch nothing).
Propagate ==
    /\ pc = "raised" /\ OwnsSession(script)
    /\ pw' = "stopped"
    /\ browser' = Released(browser)
    /\ calls' = Append(calls, Call("stop", -1))
    /\ outcome' = "raised"
    /\ pc' = "done"
    /\ UNCHANGED << clicked, peer, files, probe, script, started, results,
                    failure, log, shots, dirExists, recap_buttons, elapsed >>

\* Mutant of Handle: the handler prints the error and resumes the script at
\* the next statement.
HandleResume ==
    /\ pc = "raised" /\ script = "feature"
    /\ log' = Append(log, "An error occurred")
    /\ pc' = "ready"
    /\ UNCHANGED << clicked, peer, files, probe, script, started, results,
                    failure, browser, pw, calls, shots, dirExists,
                    recap_buttons, elapsed, outcome >>

\* Mutant of Handle: the handler prints the error and raises it again.
HandleReraise ==
    /\ pc = "raised" /\ script = "feature"
    /\ log' = Append(log, "An error occurred")
    /\ outcome' = "raised"
    /\ pc' = "done"
    /\ UNCHANGED << clicked, peer, files, probe, script, started, results,
                    failure, browser, pw, calls, shots, dirExists,
                    recap_buttons, elapsed >>

\* Mutant of Handle: the handler takes a screenshot of its own and reports
\* the failure of that capture in place of the step's failure.
HandleDiagnostic ==
    /\ pc = "raised" /\ script = "feature"
    /\ log' = Append(log, "An error occurred")
    /\ calls' = Append(calls, Call("screenshot", -1))
    /\ failure' = Failed(failure.step, "CaptureError")
    /\ outcome' = "returned"
    /\ pc' = "done"
    /\ UNCHANGED << clicked, peer, files, probe, script, started, results,
                    browser, pw, shots, dirExists, recap_buttons, elapsed >>

\* except Exception as e: print(f"An error occurred: {e}")
\* A cancellation (KeyboardInterrupt, CancelledError) is no Exception and
\* is not caught.
Handle ==
    /\ pc = "raised" /\ script = "feature"
    /\ failure.reason # "Cancelled"
    /\ log' = Append(log, "An error occurred")
    /\ outcome' = "returned"
    /\ pc' = "done"
    /\ UNCHANGED << clicked, peer, files, probe, script, started, results,
                    failure, browser, pw, calls, shots, dirExists,
                    recap_buttons, elapsed >>

\* verify_places_search falls off the end of its try block.
Return ==
    /\ pc = "ready" /\ script = "feature"
    /\ started = Len(Steps(script))
    /\ outcome' = "returned"
    /\ pc' = "done"
    /\ UNCHANGED << clicked, peer, files, probe, script, started, results,
                    failure, browser, pw, calls, log, shots, dirExists,
                    recap_buttons, elapsed >>

----------------------------------------------------------------------------
Next ==
    \/ EnterPlaywright \/ EnterTry
    \/ LaunchOk \/ LaunchFail \/ NewPageOk \/ NewPageFail
    \/ StartStep \/ FinishOk \/ FinishFail
    \/ QueryFound \/ QueryEmpty
    \/ DirPresent \/ MakeDirs \/ MakeDirsFail
    \/ DelayTick \/ DelayDone \/ ProbeTrue \/ ProbeFalse \/ WaitTimeout
    \/ Close \/ ExitWith \/ Propagate \/ Handle \/ Return

Spec == Init /\ [][Next]_vars

\* Every statement of a script is executed once control reaches it, and
\* every call returns or raises: the run never stops midway.
FairSpec == Spec /\ WF_vars(Next)

----------------------------------------------------------------------------
(* What a run reports *)

\* Exit status of the interpreter for the scripts run under __main__: an
\* exception that leaves run() ends the process with status 1, a normal
\* return with status 0.
ExitCode(o) == IF o = "raised" THEN 1 ELSE 0

Last(q) == q[Len(q)]

Done == pc = "done"

NSteps == Len(Steps(script))

\* Calls made outside the script's own steps: step -1.
Lifecycle(c) == c.step = -1

----------------------------------------------------------------------------
(* C1 *)

\* C1: fail-fast.  Once a step has failed (its call raised, its wait timed
\* out, or the Recap button was missing) no further step starts and no
\* further result or file is produced; the only call that may still follow
\* is a screenshot outside the steps or the release of the session.
C1_FailFast ==
    [][failure # NoFailure =>
          /\ started' = started
          /\ results' = results
          /\ shots' = shots
          /\ \/ calls' = calls
             \/ /\ Len(calls') = Len(calls) + 1
                /\ Lifecycle(Last(calls'))
                /\ Last(calls').op \in {"screenshot", "stop"}]_vars

\* A run has ended after a step failed with declared steps still left.
C1_Witness ==
    /\ Done
    /\ failure.step >= 0
    /\ failure.step + 1 < NSteps
    /\ started = failure.step + 1

----------------------------------------------------------------------------
(* C3 *)

\* C3 as stated: at the end of a run there is one result per executed step,
\* at most as many as declared steps, and strictly fewer exactly when a step
\* failed.
C3_Original ==
    Done =>
        /\ Len(results) = started
        /\ started <= NSteps
        /\ (started < NSteps <=> failure # NoFailure)

\* C3 amended: at the end of a run there is one result per executed step, at
\* most as many as declared steps; fewer results than declared steps occur
\* only in a failed run, and a run that failed at step i has exactly i + 1
\* results (all of them when i is the last declared step).
C3_Counts ==
    Done =>
        /\ Len(results) = started
        /\ started <= NSteps
        /\ (started < NSteps => failure # NoFailure)
        /\ (failure # NoFailure => started = failure.step + 1)

\* A run has ended with its last declared step failing.
C3_Witness ==
    /\ Done
    /\ failure.step = NSteps - 1
    /\ Len(results) = NSteps

----------------------------------------------------------------------------
(* C2 *)

\* C2: a run that launched a browser never ends with the browser still open,
\* and an open browser of the run is eventually closed, whichever way the run
\* leaves the script: after the last step, by the early return, or by an
\* exception.
C2_Released ==
    /\ [](Done /\ OwnsSession(script) => browser # "open")
    /\ ((OwnsSession(script) /\ browser = "open") ~> browser = "closed")

\* A run has ended on a failure path, where browser.close() was never
\* called, with the browser closed.
C2_Witness ==
    /\ Done
    /\ OwnsSession(script)
    /\ failure # NoFailure
    /\ browser = "closed"
    /\ \A k \in 1..Len(calls) : calls[k].op # "close"

----------------------------------------------------------------------------
(* C4 *)

\* C4: steps start one at a time in declared order.  A step starts only when
\* every step before it has ended, it is the step after the last one
\* started, and the results come in the order of the steps.
C4_InOrder ==
    [][/\ started' # started =>
            /\ started' = started + 1
            /\ Len(results) = started
       /\ Len(results') <= started'
       /\ started' <= Len(results') + 1
       /\ \A k \in 1..Len(results') : results'[k].step = k - 1]_vars

\* A wait is in progress after several probes and the step after it has
\* not started.
C4_Witness ==
    /\ pc = "waiting"
    /\ elapsed > 0
    /\ started >= 2
    /\ Len(results) = started - 1

----------------------------------------------------------------------------
(* C5 *)

RecapMissing == log # << >> /\ Last(log) = "Recap button not found"

----------------------------------------------------------------------------
(* C6 *)

\* C6: the outcome reported to the caller is 0 exactly when all steps
\* succeeded, 1 exactly when a step failed, 2 exactly when the launch failed.
C6_ExitCodes ==
    Done =>
        /\ (ExitCode(outcome) = 0 <=> failure = NoFailure)
        /\ (ExitCode(outcome) = 1 <=> failure.step >= 0)
        /\ (ExitCode(outcome) = 2 <=> failure.reason = "LaunchError")

----------------------------------------------------------------------------
(* C7 *)

\* A screenshot call made outside the script's own Screenshot step.
DiagnosticShots ==
    { k \in 1..Len(calls) : calls[k].op = "screenshot" /\ Lifecycle(calls[k]) }

----------------------------------------------------------------------------
(* C8 *)

\* C8: every wait ends.  A wait on a condition returns only after a probe
\* returned true, raises only once the time spent has reached its timeout,
\* never sleeps past the timeout, and does not stay in progress forever.
C8_WaitTerminates ==
    /\ [][(pc = "waiting" /\ pc' = "ready" /\ CurStep.cond # "FixedDelay")
             => probe']_vars
    /\ [][(pc = "waiting" /\ pc' = "raised")
             => elapsed >= CurStep.timeout]_vars
    /\ [](pc = "waiting" => elapsed < CurStep.timeout + TickMs)
    /\ (pc = "waiting" ~> pc # "waiting")

\* The wait for the modal, issued without a timeout argument, has timed out.
C8_Witness ==
    /\ script = "print"
    /\ failure = Failed(3, "TimedOut")
    /\ Last(results) = Result(3, "TimedOut")

----------------------------------------------------------------------------
(* C9 *)

\* The screenshot call of step j (1-based) has been issued.
ShotIssued(j) ==
    \E k \in 1..Len(calls) : calls[k] = Call("screenshot", j - 1)

\* C9: the screenshot call of a Screenshot step is issued only after every
\* wait before it returned successfully; a run whose wait timed out ends
\* failed at that wait, with results up to and including the wait and
\* without any screenshot.
C9_ShotAfterWait ==
    /\ \A i, j \in 1..NSteps :
          (/\ i < j
           /\ Steps(script)[i].kind = "WaitFor"
           /\ Steps(script)[j].kind = "Screenshot"
           /\ (ShotIssued(j) \/ shots # << >>))
          => (Len(results) >= i /\ results[i].outcome = "Success")
    /\ \A i \in 1..Len(results) :
          results[i].outcome = "TimedOut" =>
              /\ Steps(script)[i].kind = "WaitFor"
              /\ failure = Failed(i - 1, "TimedOut")
              /\ Len(results) = i
              /\ shots = << >>
              /\ \A k \in 1..Len(calls) : calls[k].op # "screenshot"

\* verify_places_search has ended after the overlay never became visible.
C9_Witness ==
    /\ Done
    /\ script = "feature"
    /\ failure = Failed(3, "TimedOut")
    /\ Len(results) = 4
    /\ shots = << >>

----------------------------------------------------------------------------
(* C10 *)

\* The number of Screenshot steps a script declares.
NShotSteps == Cardinality({ i \in 1..NSteps : Steps(script)[i].kind = "Screenshot" })

\* C10: a run in which nothing failed ends normally with one Success result
\* per declared step, in declared order, and one screenshot file per
\* Screenshot step; verify_places_search then has 5 results, one file, and
\* "Screenshot taken." as its last line.
C10_AllSucceed ==
    (Done /\ failure = NoFailure) =>
        /\ outcome = "returned"
        /\ Len(results) = NSteps
        /\ \A k \in 1..Len(results) : results[k] = Result(k - 1, "Success")
        /\ Len(shots) = NShotSteps
        /\ \A k \in 1..Len(shots) : shots[k] = ShotPath(script)
        /\ script = "feature" =>
              /\ Len(results) = 5
              /\ Len(shots) = 1
              /\ Last(log) = "Screenshot taken."

\* verify_places_search has ended with every step successful.
C10_Witness ==
    /\ Done
    /\ script = "feature"
    /\ failure = NoFailure
    /\ Len(results) = 5
    /\ Len(shots) = 1

----------------------------------------------------------------------------
(* Two runs at once *)

\* A second run of one of the scripts is started beside this one, in the
\* same working directory.
ConcInit == Entry /\ peer \in Scripts

\* The other run of verify_places_search finds the directory missing and
\* creates it: os.makedirs("jules-scratch/verification").
PeerMakeDirs ==
    /\ peer = "feature" /\ ~dirExists
    /\ dirExists' = TRUE
    /\ UNCHANGED << clicked, script, pc, started, results, failure, browser,
                    pw, calls, log, shots, recap_buttons, elapsed, probe,
                    outcome, peer, files >>

\* The other run reaches its page.screenshot(path=...) and writes the file.
PeerScreenshot ==
    /\ peer \in Scripts
    /\ peer = "feature" => dirExists
    /\ "peer" \notin files[ShotPath(peer)]
    /\ files' = Written(files, ShotPath(peer), "peer")
    /\ UNCHANGED << clicked, script, pc, started, results, failure, browser,
                    pw, calls, log, shots, dirExists, recap_buttons, elapsed,
                    probe, outcome, peer >>

ConcNext == Next \/ PeerMakeDirs \/ PeerScreenshot

ConcSpec == ConcInit /\ [][ConcNext]_vars

----------------------------------------------------------------------------
(* C11 *)

\* C11: two concurrent runs share no mutable state: no screenshot file is
\* written by both runs, so neither overwrites the other's artifact.
C11_Isolated == \A p \in Paths : Cardinality(files[p]) <= 1

----------------------------------------------------------------------------
(* Cancellation *)

\* The positions at which the run holds a page and has not yet left the
\* script.
InFlight == pc \in {"newpage", "ready", "query", "acting", "mkdir", "waiting"}

\* The caller cancels the run: KeyboardInterrupt / CancelledError is raised
\* at the statement the run is at, between two steps, during a call or
\* inside a wait.
Cancel ==
    /\ InFlight
    /\ browser = "open"
    /\ failure = NoFailure
    /\ failure' = Failed(Cur, "Cancelled")
    /\ pc' = "raised"
    /\ UNCHANGED << clicked, script, started, results, browser, pw, calls,
                    log, shots, dirExists, recap_buttons, elapsed, probe,
                    outcome, peer, files >>

\* The cancellation passes the except clause of verify_places_search and
\* leaves the function.
Escape ==
    /\ pc = "raised" /\ script = "feature"
    /\ failure.reason = "Cancelled"
    /\ outcome' = "raised"
    /\ pc' = "done"
    /\ UNCHANGED << clicked, script, started, results, failure, browser, pw,
                    calls, log, shots, dirExists, recap_buttons, elapsed,
                    probe, peer, files >>

CancelNext == Next \/ Cancel \/ Escape

\* A run that may be cancelled; it still never stops midway.
CancelSpec == Init /\ [][CancelNext]_vars /\ WF_vars(CancelNext)

----------------------------------------------------------------------------
(* C12 *)

Cancelled == failure.reason = "Cancelled"

\* C12: once a run has been cancelled no further step starts and no call
\* other than the release is made, and a browser the run launched is closed
\* before the run ends.
C12_CancelReleases ==
    /\ [][Cancelled =>
            /\ started' = started
            /\ results' = results
            /\ shots' = shots
            /\ (calls' = calls \/ calls' = Append(calls, Call("stop", -1)))]_vars
    /\ [](Done /\ Cancelled /\ OwnsSession(script) => browser = "closed")
    /\ ((Cancelled /\ OwnsSession(script) /\ browser = "open")
            ~> browser = "closed")

\* A run that launched its browser was cancelled inside a wait and has
\* ended, with steps left and the browser closed.
C12_Witness ==
    /\ Done
    /\ Cancelled
    /\ OwnsSession(script)
    /\ started >= 1
    /\ started < NSteps
    /\ CurStep.kind = "WaitFor"
    /\ Len(results) = started - 1
    /\ browser = "closed"

----------------------------------------------------------------------------
(* C14 *)

\* C14: a fixed-delay wait never times out: every result of such a wait is
\* Success and the wait raises nothing; so in the chat script, once the
\* navigation has succeeded, the screenshot call is always issued.
C14_DelaySucceeds ==
    /\ [](\A i \in 1..Len(results) :
             Steps(script)[i].cond = "FixedDelay"
                 => results[i].outcome = "Success")
    /\ [][(pc = "waiting" /\ CurStep.cond = "FixedDelay")
             => pc' \in {"waiting", "ready"}]_vars
    /\ ((script = "chat" /\ results = << Result(0, "Success") >>)
            ~> ShotIssued(3))

\* The chat script has slept its 5000 ms and issued the screenshot call.
C14_Witness ==
    /\ script = "chat"
    /\ Len(results) >= 2
    /\ results[2] = Result(1, "Success")
    /\ ShotIssued(3)

----------------------------------------------------------------------------
(* C15 *)

\* C15: no call of a step is issued twice: the calls made for the steps are
\* pairwise different, also in a run in which one of them raised.
C15_NoRetry ==
    \A j, k \in 1..Len(calls) :
        (j # k /\ calls[j].step >= 0) => calls[j] # calls[k]

\* verify_places_search has ended after fill raised, with fill called once.
C15_Witness ==
    /\ Done
    /\ script = "feature"
    /\ failure = Failed(1, "ElementNotFound")
    /\ Cardinality({ k \in 1..Len(calls) : calls[k] = Call("fill", 1) }) = 1

----------------------------------------------------------------------------
(* C16 *)

\* How often operation op has been called.
Count(op) == Cardinality({ k \in 1..Len(calls) : calls[k].op = op })

\* C16: browser.close() is called at most once in a run, and not at all in
\* a run that failed; playwright is stopped at most once.
C16_CloseOnce ==
    /\ Count("close") <= 1
    /\ Count("stop") <= 1
    /\ failure # NoFailure => Count("close") = 0

\* A run whose first step failed has ended: no close, one stop.
C16_Witness ==
    /\ Done
    /\ OwnsSession(script)
    /\ failure.step = 0
    /\ Count("close") = 0
    /\ Count("stop") = 1
    /\ browser = "closed"

----------------------------------------------------------------------------
(* C17 *)

----------------------------------------------------------------------------
(* C18 *)

\* The progress messages of verify_places_search, in program order.
FeatureLines ==
    << "Starting verification script...",
       "Navigated to places page.",
       "Searched for SoFi Stadium.",
       "Place info overlay is visible.",
       "Screenshot taken." >>

\* How many of them precede the statement of step i (0-based).
LinesBefore(i) ==
    CASE i = 0 -> 1
      [] i \in {1, 2} -> 2
      [] i = 3 -> 3
      [] OTHER -> 4

\* C18: verify_places_search always returns normally.  When step i raised,
\* it has printed the messages of the statements before step i and then the
\* error, and nothing else; "Screenshot taken." is printed exactly when no
\* step raised and the screenshot was written.
C18_FeatureSwallows ==
    (Done /\ script = "feature") =>
        /\ outcome = "returned"
        /\ failure = NoFailure =>
              (log = FeatureLines /\ Len(shots) = 1)
        /\ failure # NoFailure =>
              /\ log = SubSeq(FeatureLines, 1, LinesBefore(failure.step))
                           \o << "An error occurred" >>
              /\ shots = << >>

\* verify_places_search has returned after os.makedirs raised.
C18_Witness ==
    /\ Done
    /\ script = "feature"
    /\ failure = Failed(4, "CaptureError")
    /\ ~dirExists
    /\ outcome = "returned"

----------------------------------------------------------------------------
(* C19 *)

\* C19: in the recap-modal script the click is issued only after the wait
\* for the trip cards succeeded and the query found a button, and it is on
\* recap_buttons[0].  When no button is found the run prints the message
\* and ends without the click, the wait for the modal, the screenshot and
\* browser.close().
C19_RecapGuard ==
    script = "print" =>
        /\ Count("click") > 0 =>
              /\ Len(results) >= 2
              /\ results[2] = Result(1, "Success")
              /\ recap_buttons >= 1
              /\ clicked = 0
        /\ RecapMissing =>
              /\ recap_buttons = 0
              /\ Count("click") = 0
              /\ \A k \in 1..Len(calls) : calls[k].step <= 2
              /\ Count("screenshot") = 0
              /\ Count("close") = 0
              /\ shots = << >>
              /\ pc \in {"exit", "done"}

\* The recap-modal script found no button and has ended.
C19_Witness ==
    /\ Done
    /\ script = "print"
    /\ RecapMissing
    /\ outcome = "returned"
    /\ browser = "closed"

====
